---- MODULE Spec2Model ----
(***************************************************************************)
(* pylrctool: the LRC line classifier (LRCEvent.from_string), the event    *)
(* value model (compose, __eq__) and the sorted, de-duplicating event      *)
(* collection (LRCFile: add, from_string, from_file, merge_lines,          *)
(* dump_to_srt).                                                           *)
(*                                                                         *)
(* Text is a sequence of one-character strings.  A duration is a natural   *)
(* number of centiseconds (the parser only builds multiples of 10 ms);     *)
(* Python's None is the value None below.  An LRCFile is the sequence of   *)
(* its members in list order (one sublist of the SortedKeyList: fewer      *)
(* members than its load factor of 1000).                                  *)
(***************************************************************************)
EXTENDS Integers, Sequences, FiniteSets, TLC

VARIABLES events, call

vars == <<events, call>>

(* Python's None, for an absent time or repeat_time. *)
None == 0 - 1

(* bool(x) of an optional duration: None and the zero duration are falsy. *)
Truthy(t) == t # None /\ t # 0

(***************************************************************************)
(* Text helpers                                                            *)
(***************************************************************************)
Digits == <<"0", "1", "2", "3", "4", "5", "6", "7", "8", "9">>

IsDigit(c) == \E d \in 1..10 : Digits[d] = c

DigitVal(c) == (CHOOSE d \in 1..10 : Digits[d] = c) - 1

(* int(s) of a string of one or more digits; int(s or 0) of an empty one. *)
RECURSIVE ToInt(_)
ToInt(s) ==
  IF s = <<>> THEN 0
  ELSE 10 * ToInt(SubSeq(s, 1, Len(s) - 1)) + DigitVal(s[Len(s)])

(* str(n) of a natural number. *)
RECURSIVE ToStr(_)
ToStr(n) ==
  IF n < 10 THEN <<Digits[n + 1]>>
  ELSE ToStr(n \div 10) \o <<Digits[(n % 10) + 1]>>

(* format(n, "02"): at least two digits, zero padded. *)
Pad2(n) == IF n < 10 THEN <<"0">> \o ToStr(n) ELSE ToStr(n)

IsSpace(c) == c = " "

RECURSIVE LStrip(_)
LStrip(s) ==
  IF s # <<>> /\ IsSpace(s[1]) THEN LStrip(Tail(s)) ELSE s

RECURSIVE RStrip(_)
RStrip(s) ==
  IF s # <<>> /\ IsSpace(s[Len(s)]) THEN RStrip(SubSeq(s, 1, Len(s) - 1)) ELSE s

(* str.strip() *)
Strip(s) == RStrip(LStrip(s))

StartsWith(s, p) == Len(s) >= Len(p) /\ SubSeq(s, 1, Len(p)) = p

Drop(s, n) == SubSeq(s, n + 1, Len(s))

(***************************************************************************)
(* LRCEvent.Type: a kind is named by its enum value.                       *)
(***************************************************************************)
TypeChars ==
  [ti |-> <<"t", "i">>, ar |-> <<"a", "r">>, al |-> <<"a", "l">>,
   au |-> <<"a", "u">>, lr |-> <<"l", "r">>,
   length |-> <<"l", "e", "n", "g", "t", "h">>, by |-> <<"b", "y">>,
   offset |-> <<"o", "f", "f", "s", "e", "t">>, re |-> <<"r", "e">>,
   ve |-> <<"v", "e">>, lyric |-> <<"l", "y", "r", "i", "c">>]

TimedLyric == "lyric"

Comment == "#"

(* The values of the enum LRCEvent.Type. *)
Type == DOMAIN TypeChars \cup {Comment}

(* Type.value as text. *)
TypeValue(t) == IF t = Comment THEN <<"#">> ELSE TypeChars[t]

(* regex.TAG_NAME: the alternatives of the metadata-tag grammar. *)
TAG_NAME ==
  {<<"t", "i">>, <<"a", "r">>, <<"a", "l">>, <<"a", "u">>, <<"l", "r">>,
   <<"l", "e", "n", "g", "t", "h">>, <<"b", "y">>,
   <<"o", "f", "f", "s", "e", "t">>, <<"r", "e">>, <<"t", "o", "o", "l">>,
   <<"v", "e">>}

LRCEvent(time, repeat_time, data, type) ==
  [time |-> time, repeat_time |-> repeat_time, data |-> data, type |-> type]

is_lyric(e) == e.type = TimedLyric

(***************************************************************************)
(* regex.py                                                                *)
(***************************************************************************)
(* TIME_TAG at position i of s (1-based): the number of characters matched,*)
(* 0 when it does not match there.                                         *)
TimeTagLen(s, i) ==
  IF /\ i + 6 <= Len(s)
     /\ s[i] = "["
     /\ IsDigit(s[i + 1]) /\ IsDigit(s[i + 2])
     /\ s[i + 3] = ":"
     /\ IsDigit(s[i + 4]) /\ IsDigit(s[i + 5])
  THEN IF s[i + 6] = "]" THEN 7
       ELSE IF s[i + 6] = "." /\ i + 8 <= Len(s) /\ IsDigit(s[i + 7])
            THEN IF s[i + 8] = "]" THEN 9
                 ELSE IF i + 9 <= Len(s) /\ IsDigit(s[i + 8]) /\ s[i + 9] = "]"
                      THEN 10
                      ELSE 0
            ELSE 0
  ELSE 0

(* The groups (minutes, seconds, centiseconds) of the TIME_TAG at i. *)
TimeTagGroups(s, i) ==
  LET n == TimeTagLen(s, i)
  IN  <<SubSeq(s, i + 1, i + 2), SubSeq(s, i + 4, i + 5),
        IF n > 7 THEN SubSeq(s, i + 7, i + n - 2) ELSE <<>>>>

(* re.findall(TIME_TAG, s): every non-overlapping match, left to right. *)
RECURSIVE FindAllFrom(_, _)
FindAllFrom(s, i) ==
  IF i > Len(s) THEN <<>>
  ELSE IF TimeTagLen(s, i) > 0
       THEN <<TimeTagGroups(s, i)>> \o FindAllFrom(s, i + TimeTagLen(s, i))
       ELSE FindAllFrom(s, i + 1)

FindAll(s) == FindAllFrom(s, 1)

(* TIME_TAG_MULTI at the start of s: the length of the longest run of tags. *)
RECURSIVE TagRunEnd(_, _)
TagRunEnd(s, i) ==
  IF TimeTagLen(s, i) > 0 THEN TagRunEnd(s, i + TimeTagLen(s, i)) ELSE i - 1

(* ID_TAG: [tag:value], tag one of TAG_NAME, value without "]". *)
IdTagMatches(s, tag) ==
  /\ StartsWith(s, <<"[">> \o tag \o <<":">>)
  /\ Len(s) >= Len(tag) + 3
  /\ s[Len(s)] = "]"
  /\ \A k \in (Len(tag) + 3)..(Len(s) - 1) : s[k] # "]"

(* re.match(LRC_LINE, s).groupdict(); matched is FALSE when nothing matches.*)
(* A group is <<text>> when it took part in the match and <<>> (Python's   *)
(* None) when it did not.                                                  *)
LRC_LINE(s) ==
  IF \E tag \in TAG_NAME : IdTagMatches(s, tag)
  THEN LET tag == CHOOSE t \in TAG_NAME : IdTagMatches(s, t)
       IN  [matched |-> TRUE, tag |-> <<tag>>,
            value |-> <<SubSeq(s, Len(tag) + 3, Len(s) - 1)>>,
            comment |-> <<>>, lyric |-> <<>>]
  ELSE IF s # <<>> /\ s[1] = "#"
  THEN [matched |-> TRUE, tag |-> <<>>, value |-> <<>>,
        comment |-> <<Tail(s)>>, lyric |-> <<>>]
  ELSE IF TimeTagLen(s, 1) > 0
  THEN [matched |-> TRUE, tag |-> <<>>, value |-> <<>>, comment |-> <<>>,
        lyric |-> <<Drop(s, TagRunEnd(s, 1))>>]
  ELSE [matched |-> FALSE, tag |-> <<>>, value |-> <<>>, comment |-> <<>>,
        lyric |-> <<>>]

(* bool(g) of a group: None and the empty string are falsy. *)
GroupTruthy(g) == g # <<>> /\ g[1] # <<>>

(***************************************************************************)
(* lrcevent.py                                                             *)
(***************************************************************************)
(* pendulum.duration(minutes, seconds, milliseconds = centiseconds * 10)   *)
duration(g) == ToInt(g[1]) * 6000 + ToInt(g[2]) * 100 + ToInt(g[3])

(* Type(tag): the kind whose value is tag; Python raises ValueError when  *)
(* no member of the enum has that value.                                   *)
IsTypeValue(tag) == \E t \in Type : TypeValue(t) = tag

TypeOfValue(tag) == CHOOSE t \in Type : TypeValue(t) = tag

Raise(err) == [ok |-> FALSE, err |-> err]

Return(v) == [ok |-> TRUE, val |-> v]

(* LRCEvent.from_string *)
from_string(lrc_string) ==
  LET gd == LRC_LINE(lrc_string)
  IN  IF ~gd.matched THEN Raise("LRCParseError")
      ELSE IF GroupTruthy(gd.tag)
      THEN IF ~IsTypeValue(gd.tag[1]) THEN Raise("ValueError")
           ELSE Return(LRCEvent(None, None, Strip(gd.value[1]),
                                TypeOfValue(gd.tag[1])))
      ELSE IF GroupTruthy(gd.comment)
      THEN Return(LRCEvent(None, None, Strip(gd.comment[1]), Comment))
      ELSE IF gd.lyric # <<>>
      THEN LET timestamps == FindAll(lrc_string)
           IN  Return(LRCEvent(duration(timestamps[1]),
                               IF Len(timestamps) > 1
                               THEN duration(timestamps[2]) ELSE None,
                               Strip(gd.lyric[1]), TimedLyric))
      ELSE Raise("LRCParseError")

(* LRCEvent._convert_time_to_code: "{minutes:02}:{seconds:05.2f}" *)
convert_time_to_code(time) ==
  LET minutes == time \div 6000
      rest    == time % 6000
  IN  Pad2(minutes) \o <<":">> \o Pad2(rest \div 100) \o <<".">> \o Pad2(rest % 100)

(* LRCEvent.compose *)
compose(e) ==
  IF e.type = TimedLyric
  THEN IF e.time = None THEN Raise("LCRMissingTime")
       ELSE IF Truthy(e.repeat_time)
       THEN Return(<<"[">> \o convert_time_to_code(e.time) \o <<"]", "[">>
                   \o convert_time_to_code(e.repeat_time) \o <<"]">> \o e.data)
       ELSE Return(<<"[">> \o convert_time_to_code(e.time) \o <<"]">> \o e.data)
  ELSE Return(<<"[">> \o TypeValue(e.type) \o <<":">> \o e.data \o <<"]">>)

(* LRCEvent.__eq__(self, other) *)
eq(self, other) ==
  IF Truthy(self.time)
  THEN IF other.time = None THEN FALSE
       ELSE /\ self.time = other.time
            /\ self.repeat_time = other.repeat_time
            /\ self.data = other.data
            /\ self.type = other.type
  ELSE self.data = other.data /\ self.type = other.type

(***************************************************************************)
(* lrcfile.py                                                              *)
(***************************************************************************)
(* The SortedKeyList key: event.time or pendulum.duration() *)
sortKey(event) == IF Truthy(event.time) THEN event.time ELSE 0

(* bisect_right(keys, x) over the members' keys, as SortedKeyList.add      *)
(* uses it: the number of members left of the insertion point.             *)
RECURSIVE BisectRight(_, _, _, _)
BisectRight(self, x, lo, hi) ==
  IF lo >= hi THEN lo
  ELSE LET mid == (lo + hi) \div 2
       IN  IF x < sortKey(self[mid + 1])
           THEN BisectRight(self, x, lo, mid)
           ELSE BisectRight(self, x, mid + 1, hi)

(* list.insert(idx, value), idx 0-based *)
InsertAt(self, idx, value) ==
  SubSeq(self, 1, idx) \o <<value>> \o SubSeq(self, idx + 1, Len(self))

(* del self[i], i 0-based *)
DelItem(self, i) == SubSeq(self, 1, i) \o SubSeq(self, i + 2, Len(self))

(* add without the sorted insert: the new member goes to the end. *)
add_append(self, value) ==
  IF \E k \in 1..Len(self) : eq(self[k], value)
  THEN self
  ELSE Append(self, value)

(* LRCFile.add *)
add(self, value) ==
  IF \E k \in 1..Len(self) : eq(self[k], value)
  THEN self
  ELSE InsertAt(self, BisectRight(self, sortKey(value), 0, Len(self)), value)

(* LRCFile.merge_lines: the for loop runs a list iterator (at 0-based      *)
(* position p) over the live list, which del self[i] shortens under it;    *)
(* event.repeat_time = ... writes to the member at p.                      *)
RECURSIVE MergeLoop(_, _, _)
MergeLoop(self, p, i) ==
  IF p >= Len(self) THEN self
  ELSE LET event == self[p + 1]
       IN  IF is_lyric(event)
           THEN IF i < Len(self) /\ event.data = self[i + 1].data
                THEN MergeLoop(
                       DelItem([self EXCEPT ![p + 1].repeat_time = self[i + 1].time], i),
                       p + 1, i + 1)
                ELSE MergeLoop(self, p + 1, i + 1)
           ELSE MergeLoop(self, p + 1, i)

merge_lines(self) == MergeLoop(self, 0, 1)

(* timedelta(seconds=5) *)
FallbackEnd == 500

(* srt.Subtitle; pos (not a field of the program's cue) is the 1-based     *)
(* position of the member the cue was built for.                           *)
Subtitle(index, content, start, end, pos) ==
  [index |-> index, content |-> content, start |-> start, end |-> end, pos |-> pos]

(* LRCFile.dump_to_srt, up to the list handed to srt.compose.  Reading     *)
(* .total_seconds() of a time that is None raises AttributeError.  With a  *)
(* repeat time the one Subtitle object is changed after it was appended    *)
(* and appended again: both entries of the list are that object.           *)
RECURSIVE SrtLoop(_, _, _, _)
SrtLoop(self, p, index, srt_data) ==
  IF p >= Len(self) THEN Return(srt_data)
  ELSE LET event == self[p + 1]
       IN  IF ~is_lyric(event) THEN SrtLoop(self, p + 1, index + 1, srt_data)
           ELSE IF event.time = None THEN Raise("AttributeError")
           ELSE IF index + 1 < Len(self) /\ self[index + 2].time = None
           THEN Raise("AttributeError")
           ELSE LET start == event.time
                    end   == IF index + 1 < Len(self)
                             THEN self[index + 2].time
                             ELSE start + FallbackEnd
                IN  IF Truthy(event.repeat_time)
                    THEN LET srt_line == Subtitle(index + 1, event.data,
                                                  event.repeat_time, end, p + 1)
                         IN  SrtLoop(self, p + 1, index + 2,
                                     srt_data \o <<srt_line, srt_line>>)
                    ELSE SrtLoop(self, p + 1, index + 1,
                                 Append(srt_data,
                                        Subtitle(index, event.data, start, end, p + 1)))

dump_to_srt(self) == SrtLoop(self, 0, 1, <<>>)

(* The loops of LRCFile.from_string (skip_empty: its "if line:") and of    *)
(* LRCFile.from_file (no such test) over the lines of the input: the       *)
(* collection reached, and the error that ended the loop ("" for none).    *)
RECURSIVE LoadLines(_, _, _, _)
LoadLines(self, lines, k, skip_empty) ==
  IF k > Len(lines) THEN [events |-> self, err |-> ""]
  ELSE IF skip_empty /\ lines[k] = <<>>
  THEN LoadLines(self, lines, k + 1, skip_empty)
  ELSE LET r == from_string(Strip(lines[k]))
       IN  IF ~r.ok THEN [events |-> self, err |-> r.err]
           ELSE LoadLines(add(self, r.val), lines, k + 1, skip_empty)

(* LRCFile.from_string, data given as data.splitlines() *)
file_from_string(self, lines) == LoadLines(self, lines, 1, TRUE)

(* LRCFile.from_file, the file given as its lines *)
from_file(self, lines) == LoadLines(self, lines, 1, FALSE)

(***************************************************************************)
(* Inputs                                                                  *)
(***************************************************************************)
(* The most members a collection is grown to. *)
MaxLen == 3

(* The most lines of a text given to a load. *)
MaxLines == 3

TextA == <<"a">>

TextB == <<"b">>

(* "[00:00.0d]" *)
Tag0(d) == <<"[", "0", "0", ":", "0", "0", ".", "0", d, "]">>

(* The events add is called with: lyrics with and without a time and a     *)
(* repeat time, metadata and comments, and a title carrying a time.        *)
EventPool ==
  {LRCEvent(t, r, d, TimedLyric) : t \in {None, 0, 1, 2}, r \in {None, 1}, d \in {TextA, TextB}}
  \cup {LRCEvent(None, None, d, "ti") : d \in {TextA, TextB}}
  \cup {LRCEvent(None, None, TextA, Comment), LRCEvent(1, None, TextA, "ti")}

(* The lines of the texts that are loaded: an empty line, a line of one    *)
(* space, a title, and lyrics at 00:00.01 and 00:00.02.                    *)
LoadLineSet ==
  {<<>>, <<" ">>, <<"[", "t", "i", ":", "a", "]">>,
   Tag0("1") \o TextA, Tag0("2") \o TextA}

RECURSIVE SeqsUpTo(_, _)
SeqsUpTo(S, n) ==
  IF n = 0 THEN {<<>>}
  ELSE LET shorter == SeqsUpTo(S, n - 1)
       IN  shorter \cup {Append(q, x) : q \in shorter, x \in S}

LoadTexts == SeqsUpTo(LoadLineSet, MaxLines)

(***************************************************************************)
(* The collection: calls of add, from_string, merge_lines and dump_to_srt  *)
(* on one LRCFile, empty at first.  call is the last call, with what the   *)
(* properties below need of its arguments and its result.                  *)
(***************************************************************************)
Init == events = <<>> /\ call = [name |-> "init"]

Add(value) ==
  /\ Len(events) < MaxLen
  /\ events' = add(events, value)
  /\ call' = [name |-> "add"]

FromString(lines) ==
  /\ Len(events) + Len(lines) <= MaxLen
  /\ LET r == file_from_string(events, lines)
     IN  /\ events' = r.events
         /\ call' = [name |-> "from_string", err |-> r.err]

MergeLines ==
  /\ events' = merge_lines(events)
  /\ call' = [name |-> "merge_lines", prev |-> events]

DumpToSrt ==
  /\ call' = [name |-> "dump_to_srt", result |-> dump_to_srt(events)]
  /\ UNCHANGED events

Next ==
  \/ \E value \in EventPool : Add(value)
  \/ \E lines \in LoadTexts : FromString(lines)
  \/ MergeLines
  \/ DumpToSrt

Spec == Init /\ [][Next]_vars

(***************************************************************************)
(* Loading: one load of a text into an empty LRCFile.                      *)
(***************************************************************************)
InitLoad ==
  /\ events = <<>>
  /\ \E lines \in LoadTexts : call = [name |-> "text", lines |-> lines]

LoadString ==
  /\ call.name = "text"
  /\ LET r == file_from_string(events, call.lines)
     IN  /\ events' = r.events
         /\ call' = [name |-> "from_string", lines |-> call.lines, err |-> r.err]

LoadFile ==
  /\ call.name = "text"
  /\ LET r == from_file(events, call.lines)
     IN  /\ events' = r.events
         /\ call' = [name |-> "from_file", lines |-> call.lines, err |-> r.err]

NextLoad == LoadString \/ LoadFile

SpecLoad == InitLoad /\ [][NextLoad]_vars

(***************************************************************************)
(* The classifier and compose on one line.                                 *)
(***************************************************************************)
TagValues == {<<>>, TextA, <<" ", "a", " ">>}

TagLines ==
  {<<"[">> \o tag \o <<":">> \o v \o <<"]">> :
     tag \in TAG_NAME \cup {<<"x", "x">>}, v \in TagValues}

CommentLines == {<<"#">> \o c : c \in {<<>>, TextA, <<" ", "a">>, <<" ">>}}

FirstTags ==
  {<<"[", "0", "0", ":", "0", "1", ".", "2", "3", "]">>,
   <<"[", "0", "0", ":", "0", "1", "]">>,
   <<"[", "0", "0", ":", "0", "1", ".", "3", "]">>,
   <<"[", "0", "1", ":", "7", "5", ".", "0", "0", "]">>}

SecondTags ==
  {<<>>, <<"[", "0", "0", ":", "0", "2", ".", "5", "0", "]">>, Tag0("0")}

LyricTexts ==
  {<<>>, <<"H", "i">>, <<" ", "a">>,
   TextA \o <<"[", "0", "0", ":", "0", "3", ".", "0", "0", "]">>}

TimedLines == {t \o u \o x : t \in FirstTags, u \in SecondTags, x \in LyricTexts}

OtherLines ==
  {<<>>, <<"0", "0", ":", "0", "1", ".", "2", "3", "H", "i">>,
   <<"[", "t", "i", ":", "a">>, TextA}

Lines == TagLines \cup CommentLines \cup TimedLines \cup OtherLines

InitLine ==
  /\ events = <<>>
  /\ \E line \in Lines : call = [name |-> "line", line |-> line]

Classify ==
  /\ call.name = "line"
  /\ call' = [name |-> "from_string", line |-> call.line,
              result |-> from_string(call.line)]
  /\ UNCHANGED events

Compose ==
  /\ call.name = "from_string"
  /\ call.result.ok
  /\ call' = [name |-> "compose", line |-> call.line,
              result |-> compose(call.result.val)]
  /\ UNCHANGED events

NextLine == Classify \/ Compose

SpecLine == InitLine /\ [][NextLine]_vars

(***************************************************************************)
(* __eq__ on one pair of events.                                           *)
(***************************************************************************)
EqPool ==
  {LRCEvent(t, r, d, k) :
     t \in {None, 0, 1}, r \in {None, 0, 1}, d \in {TextA, TextB},
     k \in {TimedLyric, "ti", Comment}}

InitEq ==
  /\ events = <<>>
  /\ \E a \in EqPool, b \in EqPool : call = [name |-> "pair", a |-> a, b |-> b]

Eq ==
  /\ call.name = "pair"
  /\ call' = [name |-> "__eq__", a |-> call.a, b |-> call.b,
              result |-> eq(call.a, call.b)]
  /\ UNCHANGED events

NextEq == Eq

SpecEq == InitEq /\ [][NextEq]_vars

(***************************************************************************)
(* Properties                                                              *)
(***************************************************************************)
(* C1: after any sequence of add, from_string and merge_lines calls on an  *)
(* empty collection, adjacent members a, b satisfy sortKey(a) <= sortKey(b).*)
C1_SortInvariant ==
  \A k \in 1..(Len(events) - 1) : sortKey(events[k]) <= sortKey(events[k + 1])

(* C1's case: merge_lines has folded one lyric into its neighbour in a     *)
(* collection of lyrics, built by add and from_string, whose members have  *)
(* different sort keys.                                                    *)
C1_Witness ==
  /\ call.name = "merge_lines"
  /\ Len(events) < Len(call.prev)
  /\ Len(events) >= 2
  /\ \A k \in 1..Len(call.prev) : is_lyric(call.prev[k])
  /\ \E k \in 1..Len(events) : Truthy(events[k].repeat_time)
  /\ sortKey(events[1]) < sortKey(events[Len(events)])

(* C2: no two distinct members a and b of the collection have equals(a, b),*)
(* in either operand order.                                                *)
C2_Unique ==
  \A j, k \in 1..Len(events) : j # k => ~eq(events[j], events[k])

(* The positions k whose member and the next are TimedLyric events with    *)
(* the same text.                                                          *)
RepeatedPairs(self) ==
  {k \in 1..(Len(self) - 1) :
     /\ is_lyric(self[k]) /\ is_lyric(self[k + 1])
     /\ self[k].data = self[k + 1].data}

(* C3: when exactly one pair of adjacent TimedLyric members has identical  *)
(* text, merge_lines removes the later one of the pair and nothing else,   *)
(* and the earlier one keeps its time and gets the removed one's time as   *)
(* its repeat_time.                                                        *)
C3_MergeOnePair ==
  (call.name = "merge_lines" /\ Cardinality(RepeatedPairs(call.prev)) = 1)
  => LET k == CHOOSE j \in RepeatedPairs(call.prev) : TRUE
     IN  events = DelItem([call.prev EXCEPT ![k].repeat_time = call.prev[k + 1].time], k)

(* C4: equals(a, b), when a.time is set (whatever its value), holds        *)
(* exactly if b.time is set and time, repeat_time, text and kind agree;    *)
(* when a.time is unset, exactly if text and kind agree.                   *)
C4_Equals ==
  call.name = "__eq__"
  => call.result =
       IF call.a.time # None
       THEN /\ call.b.time # None
            /\ call.a.time = call.b.time
            /\ call.a.repeat_time = call.b.repeat_time
            /\ call.a.data = call.b.data
            /\ call.a.type = call.b.type
       ELSE call.a.data = call.b.data /\ call.a.type = call.b.type

(* The line with the whitespace around a metadata or comment payload       *)
(* trimmed; any other line as it is.                                       *)
TrimPayload(line) ==
  LET gd == LRC_LINE(line)
  IN  IF gd.tag # <<>>
      THEN <<"[">> \o gd.tag[1] \o <<":">> \o Strip(gd.value[1]) \o <<"]">>
      ELSE IF gd.comment # <<>>
      THEN <<"#">> \o Strip(gd.comment[1])
      ELSE line

(* C5: for every line L the classifier accepts, compose(classify(L)) is L, *)
(* up to trimming of whitespace in a metadata or comment payload.          *)
C5_RoundTrip ==
  call.name = "compose"
  => call.result.ok /\ call.result.val = TrimPayload(call.line)

(* The end the export is to give the cue of the member at position p: the  *)
(* time of the next member, or five seconds after the start for the last.  *)
ExpectedEnd(self, p) ==
  IF p < Len(self) THEN self[p + 1].time ELSE self[p].time + FallbackEnd

(* C6: in the export, the cue of every TimedLyric member starts at the     *)
(* member's time and ends at the time of the member that follows it, or    *)
(* five seconds after its start when it is the last member.  (Stated for   *)
(* the members that give one cue, those without a repeat time, followed by *)
(* a member that has a time, or by none.)                                  *)
C6_CueSpan ==
  (call.name = "dump_to_srt" /\ call.result.ok)
  => \A p \in 1..Len(events) :
       (/\ is_lyric(events[p])
        /\ ~Truthy(events[p].repeat_time)
        /\ p < Len(events) => events[p + 1].time # None)
       => \E c \in 1..Len(call.result.val) :
            /\ call.result.val[c].pos = p
            /\ call.result.val[c].start = events[p].time
            /\ call.result.val[c].end = ExpectedEnd(events, p)

(* C7: in the export, a TimedLyric member with a repeat_time gives two     *)
(* cues with its text and consecutive indices, the first from time to      *)
(* repeat_time and the second starting at repeat_time.  (Stated for a      *)
(* repeat_time other than zero.)                                           *)
C7_RepeatCues ==
  (call.name = "dump_to_srt" /\ call.result.ok)
  => \A p \in 1..Len(events) :
       (is_lyric(events[p]) /\ Truthy(events[p].repeat_time))
       => \E c \in 1..(Len(call.result.val) - 1) :
            LET first  == call.result.val[c]
                second == call.result.val[c + 1]
            IN  /\ first.pos = p /\ second.pos = p
                /\ first.content = events[p].data
                /\ second.content = events[p].data
                /\ second.index = first.index + 1
                /\ first.start = events[p].time
                /\ first.end = events[p].repeat_time
                /\ second.start = events[p].repeat_time

IsBlank(line) == Strip(line) = <<>>

NonBlank(lines) == SelectSeq(lines, LAMBDA line : ~IsBlank(line))

(* C8: a load from a string or a file whose lines are valid lines and      *)
(* blank lines (empty or only whitespace) raises no error, and leaves the  *)
(* collection that the load of the input without its blank lines leaves.   *)
C8_BlankLinesSkipped ==
  (/\ call.name \in {"from_string", "from_file"}
   /\ \A k \in 1..Len(call.lines) :
        IsBlank(call.lines[k]) \/ from_string(Strip(call.lines[k])).ok)
  => /\ call.err = ""
     /\ events = LoadLines(<<>>, NonBlank(call.lines), 1,
                           call.name = "from_string").events

(* C9: a line [tag:value] whose tag the metadata-tag grammar accepts gives *)
(* an event of the kind with that value, and fails with LRCUnsupportedType,*)
(* and no other error, when there is no such kind.                         *)
C9_UnsupportedType ==
  (call.name = "from_string" /\ LRC_LINE(call.line).tag # <<>>)
  => LET tag == LRC_LINE(call.line).tag[1]
     IN  IF IsTypeValue(tag)
         THEN call.result.ok /\ TypeValue(call.result.val.type) = tag
         ELSE ~call.result.ok /\ call.result.err = "LRCUnsupportedType"

(* C10: merge_lines leaves the collection as it was when no TimedLyric     *)
(* member is immediately followed by a TimedLyric member with the same     *)
(* text.                                                                   *)
C10_MergeFrame ==
  (call.name = "merge_lines" /\ RepeatedPairs(call.prev) = {})
  => events = call.prev

====
